---- MODULE Spec2Model ----
(***************************************************************************)
(* finance-miner (src/main.rs): the catalog assembler                      *)
(* download_emitents_data, the scalar coercion yaml_to_string, the detail  *)
(* fetcher download_emitent_info and the driver loop of main.              *)
(*                                                                         *)
(* Three specifications share the module:                                  *)
(*   Spec        one call of download_emitents_data on a catalog document  *)
(*   SpecCoerce  one call of yaml_to_string on a parsed value              *)
(*   SpecDriver  the loop of main over the assembled records               *)
(***************************************************************************)
EXTENDS Integers, Sequences, FiniteSets, TLC

VARIABLES
    \* ---- download_emitents_data --------------------------------------
    pc,                  \* position in download_emitents_data
    icharts,             \* the regions of the catalog text read so far
    emitent_ids_yaml,    \* Vec<Yaml> of the identifier array
    emitent_names_yaml,  \* Vec<Yaml> of the name array
    emitent_markets_yaml,\* Vec<Yaml> of the market array
    emitent_uris_yaml,   \* BTreeMap<Yaml, Yaml> of the URL-slug mapping
    emitents,            \* HashMap<usize, Emitent>
    emitents_by_id,      \* HashMap<String, Emitent>
    result,              \* Vec<Emitent> returned
    idx,                 \* position of the running loop
    \* ---- yaml_to_string ----------------------------------------------
    cpc,                 \* "call" before, "ret" after the call
    yaml,                \* the argument
    coerced,             \* the returned String
    \* ---- main ----------------------------------------------------------
    mpc,                 \* position in the loop of main
    records,             \* the Vec<Emitent> main iterates over
    cur,                 \* index of the record of the running iteration
    page,                \* what the transport and the page hold for it
    info,                \* Result<Yaml> of download_emitent_info
    fetched,             \* per record: "none", "ok" or "err"
    events               \* the detail fetches and sleeps, in order

vars == <<pc, icharts, emitent_ids_yaml, emitent_names_yaml,
          emitent_markets_yaml, emitent_uris_yaml, emitents, emitents_by_id,
          result, idx, cpc, yaml, coerced, mpc, records, cur, page, info,
          fetched, events>>

asmVars == <<pc, icharts, emitent_ids_yaml, emitent_names_yaml,
             emitent_markets_yaml, emitent_uris_yaml, emitents,
             emitents_by_id, result, idx>>
coerceVars == <<cpc, yaml, coerced>>
mainVars == <<mpc, records, cur, page, info, fetched, events>>

(***************************************************************************)
(* Bounds of the model.                                                    *)
(***************************************************************************)
MaxIds == 2          \* longest identifier array
MaxInt == 30         \* integers coerced are in -MaxInt .. MaxInt
MaxRecords == 4      \* longest record vector handed to the loop of main

(***************************************************************************)
(* Program constants.                                                      *)
(***************************************************************************)
SLEEP_BETWEEN_REQUESTS == 3000
TakeCount == 3

(***************************************************************************)
(* yaml_rust::Yaml: the parsed literal value.                              *)
(***************************************************************************)
YamlReal(s) == [tag |-> "Real", r |-> s]
YamlInteger(n) == [tag |-> "Integer", i |-> n]
YamlString(s) == [tag |-> "String", s |-> s]
YamlBoolean(b) == [tag |-> "Boolean", b |-> b]
YamlArray(a) == [tag |-> "Array", a |-> a]
YamlHash(h) == [tag |-> "Hash", h |-> h]
YamlAlias(n) == [tag |-> "Alias", n |-> n]
YamlNull == [tag |-> "Null"]
YamlBadValue == [tag |-> "BadValue"]

\* The empty BTreeMap and a one-entry map.
EmptyHash == [k \in {} |-> YamlNull]
Entry(k, v) == [x \in {k} |-> v]

(***************************************************************************)
(* i64::to_string and bool::to_string.                                     *)
(***************************************************************************)
Digits == <<"0", "1", "2", "3", "4", "5", "6", "7", "8", "9">>

RECURSIVE NatToString(_)
NatToString(n) ==
    IF n < 10 THEN Digits[n + 1]
    ELSE NatToString(n \div 10) \o Digits[(n % 10) + 1]

I64ToString(n) == IF n < 0 THEN "-" \o NatToString(0 - n) ELSE NatToString(n)

BoolToString(b) == IF b THEN "true" ELSE "false"

\* yaml_to_string with Null printed by its Debug form instead of dropped.
yaml_to_string_NullDebug(y) ==
    CASE y.tag = "Real" -> y.r
      [] y.tag = "String" -> y.s
      [] y.tag = "Integer" -> I64ToString(y.i)
      [] y.tag = "Boolean" -> BoolToString(y.b)
      [] y.tag = "Null" -> "Null"
      [] OTHER -> ""

(***************************************************************************)
(* fn yaml_to_string(yaml: &Yaml) -> String                                *)
(***************************************************************************)
yaml_to_string(y) ==
    CASE y.tag = "Real" -> y.r
      [] y.tag = "String" -> y.s
      [] y.tag = "Integer" -> I64ToString(y.i)
      [] y.tag = "Boolean" -> BoolToString(y.b)
      [] y.tag = "Array" -> ""
      [] y.tag = "Hash" -> ""
      [] y.tag = "Alias" -> ""
      [] y.tag = "Null" -> ""
      [] y.tag = "BadValue" -> ""

\* The parsed values handed to yaml_to_string in SpecCoerce.
CoerceInputs ==
    {YamlInteger(n) : n \in (0 - MaxInt) .. MaxInt}
    \cup {YamlReal(s) : s \in {"1.5", "-0.25", "1e3", ".inf"}}
    \cup {YamlString(s) : s \in {"Sberbank", "", "42", "true", "alpha"}}
    \cup {YamlBoolean(b) : b \in BOOLEAN}
    \cup {YamlArray(a) : a \in {<<>>, <<YamlInteger(1)>>,
                                <<YamlString("a"), YamlNull>>}}
    \cup {YamlHash(h) : h \in {EmptyHash,
                               Entry(YamlString("1"), YamlString("alpha"))}}
    \cup {YamlAlias(n) : n \in 0 .. 2}
    \cup {YamlNull, YamlBadValue}

(***************************************************************************)
(* struct Emitent and Emitent::default().                                  *)
(***************************************************************************)
EmitentDefault ==
    [internal_id |-> 0, id |-> "", name |-> "", market_id |-> "",
     market_name |-> "", uri |-> "", code |-> ""]

(***************************************************************************)
(* HashMap / BTreeMap operations used by the code.                         *)
(***************************************************************************)
\* insert: a later value replaces an earlier one under the same key.
MapInsert(m, k, v) == (k :> v) @@ m
\* what drain() leaves once the entry under k has been yielded.
MapRemove(m, k) == [x \in (DOMAIN m) \ {k} |-> m[x]]

(***************************************************************************)
(* Ord of Yaml (derived): the variants in declaration order, then the      *)
(* payload.  BTreeMap<Yaml, Yaml>::iter() yields the keys in this order.   *)
(***************************************************************************)
Ascii == "-.0123456789ABCDEFGHIJKLMNOPQRSTUVWXYZabcdefghijklmnopqrstuvwxyz"
CharCode(c) == CHOOSE k \in 1 .. Len(Ascii) : SubSeq(Ascii, k, k) = c

RECURSIVE StrLess(_, _)
StrLess(a, b) ==
    IF Len(b) = 0 THEN FALSE
    ELSE IF Len(a) = 0 THEN TRUE
    ELSE IF CharCode(SubSeq(a, 1, 1)) # CharCode(SubSeq(b, 1, 1))
         THEN CharCode(SubSeq(a, 1, 1)) < CharCode(SubSeq(b, 1, 1))
         ELSE StrLess(SubSeq(a, 2, Len(a)), SubSeq(b, 2, Len(b)))

VariantRank(y) ==
    CASE y.tag = "Real" -> 0
      [] y.tag = "Integer" -> 1
      [] y.tag = "String" -> 2
      [] y.tag = "Boolean" -> 3
      [] y.tag = "Array" -> 4
      [] y.tag = "Hash" -> 5
      [] y.tag = "Alias" -> 6
      [] y.tag = "Null" -> 7
      [] y.tag = "BadValue" -> 8

\* Keys of the maps of the model are scalars; two arrays or two hashes are
\* never compared.
YamlLess(x, y) ==
    IF VariantRank(x) # VariantRank(y) THEN VariantRank(x) < VariantRank(y)
    ELSE CASE x.tag = "Real" -> StrLess(x.r, y.r)
           [] x.tag = "Integer" -> x.i < y.i
           [] x.tag = "String" -> StrLess(x.s, y.s)
           [] x.tag = "Boolean" -> (~x.b) /\ y.b
           [] x.tag = "Alias" -> x.n < y.n
           [] OTHER -> FALSE

\* The n-th entry (from 0) that iter() yields.
KeyAt(h, n) ==
    CHOOSE k \in DOMAIN h : Cardinality({j \in DOMAIN h : YamlLess(j, k)}) = n

(***************************************************************************)
(* The catalog text.  A region is what one pattern finds in it: one        *)
(* capture per match (each pattern has one group), and a capture either    *)
(* fails to load as YAML or loads as its documents.                        *)
(***************************************************************************)
ScanError == [parse |-> "err"]
Loaded(docs) == [parse |-> "ok", docs |-> docs]

RECURSIVE extract_yaml_from_doc(_)
extract_yaml_from_doc(captures) ==
    IF captures = <<>> THEN <<>>
    ELSE LET rest == extract_yaml_from_doc(Tail(captures))
         IN  IF Head(captures).parse = "ok"
             THEN Head(captures).docs \o rest
             ELSE rest

\* match x { &Yaml::Array(ref data) => data.clone(), _ => Vec::new() }
ArrayOrEmpty(y) == IF y.tag = "Array" THEN y.a ELSE <<>>
\* match x { &Yaml::Hash(ref data) => data.clone(), _ => BTreeMap::new() }
HashOrEmpty(y) == IF y.tag = "Hash" THEN y.h ELSE EmptyHash

\* All sequences over S of length at most n.
SeqsUpTo(S, n) == UNION {[1 .. k -> S] : k \in 0 .. n}

\* What a pattern can find for a literal drawn from Values: nothing, a
\* capture that does not load, the literal once (possibly after a capture
\* that does not load), or the literal twice.
Regions(Values) ==
    {<<>>, <<ScanError>>}
    \cup {<<Loaded(<<v>>)>> : v \in Values}
    \cup {<<ScanError, Loaded(<<v>>)>> : v \in {YamlArray(<<>>)} \cap Values}
    \cup {<<Loaded(<<v>>), Loaded(<<v>>)>> :
              v \in {YamlArray(<<>>), YamlHash(EmptyHash)} \cap Values}

\* download_emitents_data is examined on its own under Spec (main idle) and
\* as the first call of main under SpecDriver, there on fewer, longer
\* catalogs.
Standalone == mpc = "idle"

IdElems == {YamlInteger(1), YamlString("1"), YamlString("2")}
IdArrays ==
    IF Standalone
    THEN {YamlArray(a) : a \in SeqsUpTo(IdElems, MaxIds)}
    ELSE {YamlArray([p \in 1 .. n |-> YamlString(NatToString(p))]) :
              n \in 0 .. MaxRecords}
         \cup {YamlArray(<<YamlInteger(1), YamlString("1")>>)}

NameAt(p) ==
    CASE p = 1 -> YamlString("Alpha")
      [] p = 2 -> YamlString("Beta")
      [] OTHER -> YamlInteger(p)
NameArrays ==
    IF Standalone
    THEN {YamlArray([p \in 1 .. n |-> NameAt(p)]) : n \in 0 .. MaxIds + 1}
    ELSE {YamlArray([p \in 1 .. MaxRecords |-> NameAt(p)])}

MarketArrays ==
    IF Standalone
    THEN {YamlArray([p \in 1 .. n |-> YamlString("1")]) :
              n \in 0 .. MaxIds + 1}
         \cup {YamlArray([p \in 1 .. n |-> YamlInteger(p + 1)]) :
                   n \in 1 .. MaxIds + 1}
    ELSE {YamlArray([p \in 1 .. MaxRecords |-> YamlString("1")])}

UriKeys == {YamlInteger(1), YamlString("1"), YamlString("2"), YamlString("9")}
UriOf(k) ==
    CASE k = YamlInteger(1) -> YamlString("one")
      [] k = YamlString("1") -> YamlString("alpha")
      [] k = YamlString("2") -> YamlString("beta")
      [] OTHER -> YamlInteger(9)
UriHashes ==
    IF Standalone
    THEN {YamlHash([k \in K |-> UriOf(k)]) : K \in SUBSET UriKeys}
    ELSE {YamlHash([k \in {YamlString(NatToString(p)) : p \in 1 .. MaxRecords}
                       |-> YamlString("slug" \o k.s)])}

AsmIdle ==
    /\ pc = "idle" /\ icharts = <<>> /\ emitent_ids_yaml = <<>>
    /\ emitent_names_yaml = <<>> /\ emitent_markets_yaml = <<>>
    /\ emitent_uris_yaml = EmptyHash /\ emitents = <<>>
    /\ emitents_by_id = <<>> /\ result = <<>> /\ idx = 0
CoerceIdle == cpc = "idle" /\ yaml = YamlNull /\ coerced = ""
MainIdle ==
    /\ mpc = "idle" /\ records = <<>> /\ cur = 0 /\ page = <<>>
    /\ info = <<>> /\ fetched = <<>> /\ events = <<>>

(***************************************************************************)
(* fn download_emitents_data() -> Vec<Emitent>                             *)
(*                                                                         *)
(* The catalog text is an input: the region a pattern finds is drawn when  *)
(* the pattern is applied, and kept in icharts from then on.               *)
(***************************************************************************)
Init ==
    /\ CoerceIdle /\ MainIdle
    /\ pc = "start"
    /\ icharts = <<>>
    /\ emitent_ids_yaml = <<>>
    /\ emitent_names_yaml = <<>>
    /\ emitent_markets_yaml = <<>>
    /\ emitent_uris_yaml = EmptyHash
    /\ emitents = <<>>
    /\ emitents_by_id = <<>>
    /\ result = <<>>
    /\ idx = 0

\* download_finam_doc(ICHARTS_URI) ... unwrap_or_else(exit(2))
Download ==
    /\ pc = "start"
    /\ \E ok \in BOOLEAN : pc' = IF ok THEN "extract_ids" ELSE "exited"
    /\ UNCHANGED <<icharts, emitent_ids_yaml, emitent_names_yaml,
                   emitent_markets_yaml, emitent_uris_yaml, emitents,
                   emitents_by_id, result, idx, coerceVars, mainVars>>

\* extract_yaml_from_doc(r"var aEmitentIds = (\[.*?\]);"), the assertion
\* and the match on the first value.
ExtractIds ==
    /\ pc = "extract_ids"
    /\ \E region \in Regions(IdArrays) :
         LET emitent_id_sources == extract_yaml_from_doc(region)
         IN  /\ icharts' = MapInsert(icharts, "aEmitentIds", region)
             /\ IF Len(emitent_id_sources) = 1
                THEN /\ emitent_ids_yaml' = ArrayOrEmpty(emitent_id_sources[1])
                     /\ pc' = "ids"
                ELSE /\ emitent_ids_yaml' = emitent_ids_yaml
                     /\ pc' = "panicked"
    /\ emitents' = <<>>
    /\ idx' = 0
    /\ UNCHANGED <<emitent_names_yaml, emitent_markets_yaml,
                   emitent_uris_yaml, emitents_by_id, result, coerceVars,
                   mainVars>>

\* One iteration of the loop over emitent_ids_yaml.iter().enumerate().
InsertId ==
    /\ pc = "ids"
    /\ idx < Len(emitent_ids_yaml)
    /\ LET id == yaml_to_string(emitent_ids_yaml[idx + 1])
       IN  emitents' = MapInsert(emitents, idx,
                           [EmitentDefault EXCEPT !.internal_id = idx,
                                                  !.id = id])
    /\ idx' = idx + 1
    /\ UNCHANGED <<pc, icharts, emitent_ids_yaml, emitent_names_yaml,
                   emitent_markets_yaml, emitent_uris_yaml, emitents_by_id,
                   result, coerceVars, mainVars>>

ExtractNames ==
    /\ pc = "ids"
    /\ idx = Len(emitent_ids_yaml)
    /\ \E region \in Regions(NameArrays) :
         LET emitent_name_sources == extract_yaml_from_doc(region)
         IN  /\ icharts' = MapInsert(icharts, "aEmitentNames", region)
             /\ IF Len(emitent_name_sources) = 1
                THEN /\ emitent_names_yaml' =
                            ArrayOrEmpty(emitent_name_sources[1])
                     /\ pc' = "names"
                ELSE /\ emitent_names_yaml' = emitent_names_yaml
                     /\ pc' = "panicked"
    /\ idx' = 0
    /\ UNCHANGED <<emitent_ids_yaml, emitent_markets_yaml, emitent_uris_yaml,
                   emitents, emitents_by_id, result, coerceVars, mainVars>>

\* SetName inserting a record for a name without one instead of warning.
SetName_Upsert ==
    /\ pc = "names"
    /\ idx < Len(emitent_names_yaml)
    /\ LET name == yaml_to_string(emitent_names_yaml[idx + 1])
       IN  IF idx \in DOMAIN emitents
           THEN emitents' = [emitents EXCEPT ![idx].name = name]
           ELSE emitents' = MapInsert(emitents, idx,
                                [EmitentDefault EXCEPT !.internal_id = idx,
                                                       !.name = name])
    /\ idx' = idx + 1
    /\ UNCHANGED <<pc, icharts, emitent_ids_yaml, emitent_names_yaml,
                   emitent_markets_yaml, emitent_uris_yaml, emitents_by_id,
                   result, coerceVars, mainVars>>

\* One iteration of the loop over emitent_names_yaml.iter().enumerate().
SetName ==
    /\ pc = "names"
    /\ idx < Len(emitent_names_yaml)
    /\ IF idx \in DOMAIN emitents
       THEN emitents' = [emitents EXCEPT ![idx].name =
                             yaml_to_string(emitent_names_yaml[idx + 1])]
       ELSE emitents' = emitents
    /\ idx' = idx + 1
    /\ UNCHANGED <<pc, icharts, emitent_ids_yaml, emitent_names_yaml,
                   emitent_markets_yaml, emitent_uris_yaml, emitents_by_id,
                   result, coerceVars, mainVars>>

ExtractMarkets ==
    /\ pc = "names"
    /\ idx = Len(emitent_names_yaml)
    /\ \E region \in Regions(MarketArrays) :
         LET emitent_market_sources == extract_yaml_from_doc(region)
         IN  /\ icharts' = MapInsert(icharts, "aEmitentMarkets", region)
             /\ IF Len(emitent_market_sources) = 1
                THEN /\ emitent_markets_yaml' =
                            ArrayOrEmpty(emitent_market_sources[1])
                     /\ pc' = "markets"
                ELSE /\ emitent_markets_yaml' = emitent_markets_yaml
                     /\ pc' = "panicked"
    /\ idx' = 0
    /\ UNCHANGED <<emitent_ids_yaml, emitent_names_yaml, emitent_uris_yaml,
                   emitents, emitents_by_id, result, coerceVars, mainVars>>

\* SetMarket writing the field of the loop it was copied from.
SetMarket_IntoName ==
    /\ pc = "markets"
    /\ idx < Len(emitent_markets_yaml)
    /\ IF idx \in DOMAIN emitents
       THEN emitents' = [emitents EXCEPT ![idx].name =
                             yaml_to_string(emitent_markets_yaml[idx + 1])]
       ELSE emitents' = emitents
    /\ idx' = idx + 1
    /\ UNCHANGED <<pc, icharts, emitent_ids_yaml, emitent_names_yaml,
                   emitent_markets_yaml, emitent_uris_yaml, emitents_by_id,
                   result, coerceVars, mainVars>>

\* One iteration of the loop over emitent_markets_yaml.iter().enumerate().
SetMarket ==
    /\ pc = "markets"
    /\ idx < Len(emitent_markets_yaml)
    /\ IF idx \in DOMAIN emitents
       THEN emitents' = [emitents EXCEPT ![idx].market_id =
                             yaml_to_string(emitent_markets_yaml[idx + 1])]
       ELSE emitents' = emitents
    /\ idx' = idx + 1
    /\ UNCHANGED <<pc, icharts, emitent_ids_yaml, emitent_names_yaml,
                   emitent_markets_yaml, emitent_uris_yaml, emitents_by_id,
                   result, coerceVars, mainVars>>

\* let mut emitents_by_id = HashMap::<String, Emitent>::new();
StartRekey ==
    /\ pc = "markets"
    /\ idx = Len(emitent_markets_yaml)
    /\ emitents_by_id' = <<>>
    /\ pc' = "rekey"
    /\ UNCHANGED <<icharts, emitent_ids_yaml, emitent_names_yaml,
                   emitent_markets_yaml, emitent_uris_yaml, emitents, result,
                   idx, coerceVars, mainVars>>

\* Rekey keying the new map on the display name instead of the id.
Rekey_ByName ==
    /\ pc = "rekey"
    /\ \E k \in DOMAIN emitents :
         /\ emitents_by_id' = MapInsert(emitents_by_id, emitents[k].name,
                                        emitents[k])
         /\ emitents' = MapRemove(emitents, k)
    /\ UNCHANGED <<pc, icharts, emitent_ids_yaml, emitent_names_yaml,
                   emitent_markets_yaml, emitent_uris_yaml, result, idx,
                   coerceVars, mainVars>>

\* One iteration of the loop over emitents.drain(): a HashMap yields its
\* entries in an order the program does not control.
Rekey ==
    /\ pc = "rekey"
    /\ \E k \in DOMAIN emitents :
         /\ emitents_by_id' = MapInsert(emitents_by_id, emitents[k].id,
                                        emitents[k])
         /\ emitents' = MapRemove(emitents, k)
    /\ UNCHANGED <<pc, icharts, emitent_ids_yaml, emitent_names_yaml,
                   emitent_markets_yaml, emitent_uris_yaml, result, idx,
                   coerceVars, mainVars>>

ExtractUris ==
    /\ pc = "rekey"
    /\ DOMAIN emitents = {}
    /\ \E region \in Regions(UriHashes) :
         LET emitent_uris_sources == extract_yaml_from_doc(region)
         IN  /\ icharts' = MapInsert(icharts, "aEmitentUrls", region)
             /\ IF Len(emitent_uris_sources) = 1
                THEN /\ emitent_uris_yaml' =
                            HashOrEmpty(emitent_uris_sources[1])
                     /\ pc' = "uris"
                ELSE /\ emitent_uris_yaml' = emitent_uris_yaml
                     /\ pc' = "panicked"
    /\ idx' = 0
    /\ UNCHANGED <<emitent_ids_yaml, emitent_names_yaml,
                   emitent_markets_yaml, emitents, emitents_by_id, result,
                   coerceVars, mainVars>>

\* SetUri inserting a record for a key without one instead of warning.
SetUri_Upsert ==
    /\ pc = "uris"
    /\ idx < Cardinality(DOMAIN emitent_uris_yaml)
    /\ LET id == KeyAt(emitent_uris_yaml, idx)
           uri == emitent_uris_yaml[id]
       IN  IF yaml_to_string(id) \in DOMAIN emitents_by_id
           THEN emitents_by_id' =
                    [emitents_by_id EXCEPT ![yaml_to_string(id)].uri =
                         yaml_to_string(uri)]
           ELSE emitents_by_id' =
                    MapInsert(emitents_by_id, yaml_to_string(id),
                        [EmitentDefault EXCEPT !.id = yaml_to_string(id),
                                               !.uri = yaml_to_string(uri)])
    /\ idx' = idx + 1
    /\ UNCHANGED <<pc, icharts, emitent_ids_yaml, emitent_names_yaml,
                   emitent_markets_yaml, emitent_uris_yaml, emitents, result,
                   coerceVars, mainVars>>

\* One iteration of the loop over emitent_uris_yaml.iter().
SetUri ==
    /\ pc = "uris"
    /\ idx < Cardinality(DOMAIN emitent_uris_yaml)
    /\ LET id == KeyAt(emitent_uris_yaml, idx)
           uri == emitent_uris_yaml[id]
       IN  IF yaml_to_string(id) \in DOMAIN emitents_by_id
           THEN emitents_by_id' =
                    [emitents_by_id EXCEPT ![yaml_to_string(id)].uri =
                         yaml_to_string(uri)]
           ELSE emitents_by_id' = emitents_by_id
    /\ idx' = idx + 1
    /\ UNCHANGED <<pc, icharts, emitent_ids_yaml, emitent_names_yaml,
                   emitent_markets_yaml, emitent_uris_yaml, emitents, result,
                   coerceVars, mainVars>>

\* let mut result = Vec::<Emitent>::new();
StartCollect ==
    /\ pc = "uris"
    /\ idx = Cardinality(DOMAIN emitent_uris_yaml)
    /\ result' = <<>>
    /\ pc' = "collect"
    /\ UNCHANGED <<icharts, emitent_ids_yaml, emitent_names_yaml,
                   emitent_markets_yaml, emitent_uris_yaml, emitents,
                   emitents_by_id, idx, coerceVars, mainVars>>

\* One iteration of the loop over emitents_by_id.drain().
Collect ==
    /\ pc = "collect"
    /\ \E k \in DOMAIN emitents_by_id :
         /\ result' = Append(result, emitents_by_id[k])
         /\ emitents_by_id' = MapRemove(emitents_by_id, k)
    /\ UNCHANGED <<pc, icharts, emitent_ids_yaml, emitent_names_yaml,
                   emitent_markets_yaml, emitent_uris_yaml, emitents, idx,
                   coerceVars, mainVars>>

Return ==
    /\ pc = "collect"
    /\ DOMAIN emitents_by_id = {}
    /\ pc' = "returned"
    /\ UNCHANGED <<icharts, emitent_ids_yaml, emitent_names_yaml,
                   emitent_markets_yaml, emitent_uris_yaml, emitents,
                   emitents_by_id, result, idx, coerceVars, mainVars>>

Next ==
    \/ Download
    \/ ExtractIds
    \/ InsertId
    \/ ExtractNames
    \/ SetName
    \/ ExtractMarkets
    \/ SetMarket
    \/ StartRekey
    \/ Rekey
    \/ ExtractUris
    \/ SetUri
    \/ StartCollect
    \/ Collect
    \/ Return

Spec == Init /\ [][Next]_vars

(***************************************************************************)
(* Option<T>, and the accessors of Yaml that main uses.                    *)
(***************************************************************************)
None == <<>>
Some(x) == <<x>>
unwrap_or(o, d) == IF Len(o) = 0 THEN d ELSE o[1]

\* as_str coercing any scalar to text instead of accepting text only.
as_str_Coercing(y) ==
    IF y.tag \in {"String", "Real", "Integer", "Boolean"}
    THEN Some(yaml_to_string(y)) ELSE None

as_hash(y) == IF y.tag = "Hash" THEN Some(y.h) ELSE None
as_str(y) == IF y.tag = "String" THEN Some(y.s) ELSE None
hash_get(h, k) == IF k \in DOMAIN h THEN Some(h[k]) ELSE None

\* Yaml::from_str: a plain scalar is null, a boolean, an integer or text
\* (hexadecimal and real forms are not among the keys main asks for).
IsDigits(s) ==
    /\ Len(s) > 0
    /\ \A p \in 1 .. Len(s) : \E d \in 1 .. 10 : SubSeq(s, p, p) = Digits[d]
RECURSIVE ParseNat(_)
ParseNat(s) ==
    IF Len(s) = 0 THEN 0
    ELSE 10 * ParseNat(SubSeq(s, 1, Len(s) - 1))
         + ((CHOOSE d \in 1 .. 10 : SubSeq(s, Len(s), Len(s)) = Digits[d]) - 1)
YamlFromStr(s) ==
    IF s \in {"~", "null"} THEN YamlNull
    ELSE IF s = "true" THEN YamlBoolean(TRUE)
    ELSE IF s = "false" THEN YamlBoolean(FALSE)
    ELSE IF IsDigits(s) THEN YamlInteger(ParseNat(s))
    ELSE YamlString(s)

\* yaml.as_hash().and_then(get "quote").and_then(as_hash), shared by the two
\* chains of main.
QuoteHash(y) ==
    LET root == as_hash(y)
        quote == IF Len(root) = 0 THEN None
                 ELSE hash_get(root[1], YamlFromStr("quote"))
    IN  IF Len(quote) = 0 THEN None ELSE as_hash(quote[1])

\* emitent.code = ... .unwrap_or_else(|| "").to_string()
ResolveCode(y) ==
    LET quote == QuoteHash(y)
        code == IF Len(quote) = 0 THEN None
                ELSE hash_get(quote[1], YamlFromStr("code"))
        text == IF Len(code) = 0 THEN None ELSE as_str(code[1])
    IN  unwrap_or(text, "")

\* emitent.market_name = ... .unwrap_or_else(|| "").to_string()
ResolveMarketName(y) ==
    LET quote == QuoteHash(y)
        market == IF Len(quote) = 0 THEN None
                  ELSE hash_get(quote[1], YamlFromStr("market"))
        mhash == IF Len(market) = 0 THEN None ELSE as_hash(market[1])
        title == IF Len(mhash) = 0 THEN None
                 ELSE hash_get(mhash[1], YamlFromStr("title"))
        text == IF Len(title) = 0 THEN None ELSE as_str(title[1])
    IN  unwrap_or(text, "")

(***************************************************************************)
(* Result<Yaml> and fn download_emitent_info(uri: &str) -> Result<Yaml>    *)
(*                                                                         *)
(* A page is what the transport and the text give for one profile URL:     *)
(* the outcome of download_finam_doc, whether the Main.issue pattern       *)
(* matches and what the captured literal loads as.                         *)
(***************************************************************************)
Ok(v) == [ok |-> TRUE, value |-> v]
Err(e) == [ok |-> FALSE, err |-> e]

\* download_emitent_info reporting a literal that does not parse as a block
\* that was not found.
download_emitent_info_AllNotFound(p) ==
    IF p.http # "ok" THEN Err(p.http)
    ELSE IF ~p.matched THEN Err("ParseError::BlockNotFound")
    ELSE IF p.capture.parse = "err" THEN Err("ParseError::BlockNotFound")
    ELSE IF Len(p.capture.docs) = 0 THEN Err("ParseError::BlockNotFound")
    ELSE Ok(p.capture.docs[1])

download_emitent_info(p) ==
    IF p.http # "ok" THEN Err(p.http)
    ELSE IF ~p.matched THEN Err("ParseError::BlockNotFound")
    ELSE IF p.capture.parse = "err" THEN Err("ParseError::YamlError")
    ELSE IF Len(p.capture.docs) = 0 THEN Err("ParseError::BlockNotFound")
    ELSE Ok(p.capture.docs[1])

\* The values of quote, and of the whole literal, the pages carry.
Str(s) == YamlString(s)
OptEntry(k, V) == {EmptyHash} \cup {Entry(Str(k), v) : v \in V}
CodeValues == {Str("SBER"), YamlInteger(5), YamlHash(EmptyHash)}
MarketValues ==
    {Str("MICEX"), YamlHash(EmptyHash)}
    \cup {YamlHash(Entry(Str("title"), t)) :
              t \in {Str("MICEX"), YamlInteger(1), YamlNull}}
QuoteValues ==
    {Str("SBER"), YamlArray(<<>>)}
    \cup {YamlHash(c @@ m) : c \in OptEntry("code", CodeValues),
                             m \in OptEntry("market", MarketValues)}
IssueValues ==
    {Str("quote"), YamlNull, YamlArray(<<Str("quote")>>),
     YamlHash(Entry(Str("code"), Str("SBER"))),
     YamlHash(Entry(YamlInteger(1), Str("SBER")))}
    \cup {YamlHash(q) : q \in OptEntry("quote", QuoteValues)}

Pages ==
    {[http |-> h, matched |-> FALSE, capture |-> ScanError] :
         h \in {"Http", "Io", "HttpErrorStatus", "EncodingError", "ok"}}
    \cup {[http |-> "ok", matched |-> TRUE, capture |-> c] :
              c \in {ScanError, Loaded(<<>>)}
                    \cup {Loaded(<<v>>) : v \in IssueValues}}

(***************************************************************************)
(* fn main(): the loop over download_emitents_data().iter_mut().take(3).   *)
(***************************************************************************)
MARKETS_BASE_URI == "http://www.finam.ru/profile/"

InitDriver ==
    /\ CoerceIdle
    /\ pc = "start" /\ icharts = <<>> /\ emitent_ids_yaml = <<>>
    /\ emitent_names_yaml = <<>> /\ emitent_markets_yaml = <<>>
    /\ emitent_uris_yaml = EmptyHash /\ emitents = <<>>
    /\ emitents_by_id = <<>> /\ result = <<>> /\ idx = 0
    /\ mpc = "call"
    /\ records = <<>> /\ cur = 0 /\ page = <<>> /\ info = <<>>
    /\ fetched = <<>> /\ events = <<>>

\* download_emitents_data() has returned its vector.
CallReturn ==
    /\ mpc = "call"
    /\ pc = "returned"
    /\ records' = result
    /\ fetched' = [k \in 1 .. Len(result) |-> "none"]
    /\ cur' = 0
    /\ mpc' = "loop"
    /\ UNCHANGED <<page, info, events, asmVars, coerceVars>>

Taken == IF Len(records) < TakeCount THEN Len(records) ELSE TakeCount

\* download_emitent_info(&format!("{}/{}", MARKETS_BASE_URI, &emitent.uri))
Fetch ==
    /\ mpc = "loop"
    /\ cur < Taken
    /\ \E p \in Pages :
         /\ page' = p
         /\ info' = download_emitent_info(p)
    /\ events' = Append(events,
                     [ev |-> "fetch",
                      uri |-> MARKETS_BASE_URI \o "/" \o records[cur + 1].uri])
    /\ mpc' = "fetched"
    /\ UNCHANGED <<records, cur, fetched, asmVars, coerceVars>>

\* Skip leaving the loop (break) instead of going on (continue).
Skip_Break ==
    /\ mpc = "fetched"
    /\ ~info.ok
    /\ fetched' = [fetched EXCEPT ![cur + 1] = "err"]
    /\ page' = <<>>
    /\ info' = <<>>
    /\ mpc' = "done"
    /\ UNCHANGED <<records, cur, events, asmVars, coerceVars>>

\* Err(err) => { println!(...); continue; }
Skip ==
    /\ mpc = "fetched"
    /\ ~info.ok
    /\ fetched' = [fetched EXCEPT ![cur + 1] = "err"]
    /\ cur' = cur + 1
    /\ page' = <<>>
    /\ info' = <<>>
    /\ mpc' = "loop"
    /\ UNCHANGED <<records, events, asmVars, coerceVars>>

\* Ok(yaml): the two assignments and println!("{:?}", emitent).
Resolve ==
    /\ mpc = "fetched"
    /\ info.ok
    /\ records' = [records EXCEPT
                       ![cur + 1].code = ResolveCode(info.value),
                       ![cur + 1].market_name = ResolveMarketName(info.value)]
    /\ fetched' = [fetched EXCEPT ![cur + 1] = "ok"]
    /\ mpc' = "sleep"
    /\ UNCHANGED <<cur, page, info, events, asmVars, coerceVars>>

\* std::thread::sleep(Duration::new(SLEEP_BETWEEN_REQUESTS, 0))
Sleep ==
    /\ mpc = "sleep"
    /\ events' = Append(events,
                     [ev |-> "sleep", secs |-> SLEEP_BETWEEN_REQUESTS])
    /\ cur' = cur + 1
    /\ page' = <<>>
    /\ info' = <<>>
    /\ mpc' = "loop"
    /\ UNCHANGED <<records, fetched, asmVars, coerceVars>>

\* The iterator is exhausted: main returns.
Finish ==
    /\ mpc = "loop"
    /\ cur = Taken
    /\ mpc' = "done"
    /\ UNCHANGED <<records, cur, page, info, fetched, events, asmVars,
                   coerceVars>>

NextDriver ==
    \/ Next
    \/ CallReturn
    \/ Fetch
    \/ Skip
    \/ Resolve
    \/ Sleep
    \/ Finish

SpecDriver == InitDriver /\ [][NextDriver]_vars

(***************************************************************************)
(* SpecCoerce: yaml_to_string applied to one parsed value.                 *)
(***************************************************************************)
InitCoerce ==
    /\ AsmIdle /\ MainIdle
    /\ cpc = "call"
    /\ yaml \in CoerceInputs
    /\ coerced = ""

Coerce ==
    /\ cpc = "call"
    /\ coerced' = yaml_to_string(yaml)
    /\ cpc' = "ret"
    /\ UNCHANGED <<yaml, asmVars, mainVars>>

NextCoerce == Coerce

SpecCoerce == InitCoerce /\ [][NextCoerce]_vars

(***************************************************************************)
(* Properties of download_emitents_data (checked under Spec).              *)
(***************************************************************************)
Returned == pc = "returned"

\* The coerced identifiers of the identifier array.
CoercedIds ==
    {yaml_to_string(emitent_ids_yaml[p]) : p \in 1 .. Len(emitent_ids_yaml)}
ResultIds == {result[j].id : j \in 1 .. Len(result)}
NoSharedId ==
    \A j, k \in 1 .. Len(result) : result[j].id = result[k].id => j = k

\* C1 as stated: on a catalog whose four collections are each found once,
\* the call returns as many records as the identifier array has elements,
\* and no two of them share an id.
C1_OnePerElement ==
    Returned => (Len(result) = Len(emitent_ids_yaml) /\ NoSharedId)

\* C1 as amended: the call returns exactly one record per distinct coerced
\* identifier (so as many records as elements exactly when the coerced
\* identifiers are pairwise distinct), and no two of them share an id.
C1_OnePerDistinctId ==
    Returned =>
        /\ ResultIds = CoercedIds
        /\ Len(result) = Cardinality(CoercedIds)
        /\ NoSharedId
        /\ (Len(result) = Len(emitent_ids_yaml)
               <=> Cardinality(CoercedIds) = Len(emitent_ids_yaml))

C1_Witness ==
    /\ Returned
    /\ Len(emitent_ids_yaml) = 2
    /\ Len(result) = 2
    /\ result[1].id # result[2].id

\* The entry of the URL-slug mapping that decides the uri of the record
\* with identifier id: the greatest key, in the order of the mapping, among
\* those that coerce to id.
KeysFor(id) == {k \in DOMAIN emitent_uris_yaml : yaml_to_string(k) = id}
UriFor(id) ==
    IF KeysFor(id) = {} THEN ""
    ELSE LET last == CHOOSE k \in KeysFor(id) :
                         \A j \in KeysFor(id) \ {k} : YamlLess(j, k)
         IN  yaml_to_string(emitent_uris_yaml[last])
ElementOr(seq, i, default) ==
    IF i < Len(seq) THEN yaml_to_string(seq[i + 1]) ELSE default

Scenario ==
    /\ emitent_ids_yaml = <<YamlString("1"), YamlString("2")>>
    /\ emitent_names_yaml = <<YamlString("Alpha"), YamlString("Beta")>>
    /\ emitent_markets_yaml = <<YamlString("1"), YamlString("1")>>
    /\ emitent_uris_yaml = (YamlString("1") :> YamlString("alpha"))
                           @@ (YamlString("2") :> YamlString("beta"))
ScenarioRecords ==
    {[internal_id |-> 0, id |-> "1", name |-> "Alpha", market_id |-> "1",
      market_name |-> "", uri |-> "alpha", code |-> ""],
     [internal_id |-> 1, id |-> "2", name |-> "Beta", market_id |-> "1",
      market_name |-> "", uri |-> "beta", code |-> ""]}

\* C2: every returned record with sequence index i carries the coercions of
\* element i of the identifier, name and market arrays (the empty string
\* where an array has no element i) and the coerced slug the mapping holds
\* for its id (empty when no key coerces to it); the catalog of the
\* end-to-end scenario yields exactly its two records.
C2_FieldsByPosition ==
    Returned =>
        /\ \A j \in 1 .. Len(result) :
             LET r == result[j]
                 i == r.internal_id
             IN  /\ i \in 0 .. Len(emitent_ids_yaml) - 1
                 /\ r.id = yaml_to_string(emitent_ids_yaml[i + 1])
                 /\ r.name = ElementOr(emitent_names_yaml, i, "")
                 /\ r.market_id = ElementOr(emitent_markets_yaml, i, "")
                 /\ r.uri = UriFor(r.id)
        /\ Scenario =>
             /\ Len(result) = 2
             /\ {result[j] : j \in 1 .. Len(result)} = ScenarioRecords

C2_Witness ==
    /\ Returned
    /\ Scenario
    /\ result[1].id = "2"

\* C3: a value of the name array (likewise of the market array) at a
\* position the identifier array does not have is discarded: the step that
\* reads it creates no record and changes no record, and no record ever
\* has a sequence index outside the identifier array.
OrphanAt(loop, seq) ==
    pc = loop /\ idx < Len(seq) /\ idx >= Len(emitent_ids_yaml)
C3_Step ==
    (OrphanAt("names", emitent_names_yaml)
         \/ OrphanAt("markets", emitent_markets_yaml))
        => (emitents' = emitents /\ pc' = pc)
C3_Indexes ==
    /\ DOMAIN emitents \subseteq 0 .. Len(emitent_ids_yaml) - 1
    /\ Returned => Len(result) <= Len(emitent_ids_yaml)
C3_OrphanDrop == [][C3_Step]_vars /\ []C3_Indexes

C3_Witness ==
    /\ pc = "names"
    /\ Len(emitent_ids_yaml) = 1
    /\ Len(emitent_names_yaml) = 2
    /\ idx = 2
    /\ DOMAIN emitents = {0}
    /\ emitents[0].name = "Alpha"

\* C4: an entry of the URL-slug mapping whose coerced key is the id of no
\* assembled record is dropped: the step that reads it creates no record
\* and leaves every field of every record as it was.
RecordIds == {emitents_by_id[k].id : k \in DOMAIN emitents_by_id}
UnknownKeyAt(n) ==
    /\ n < Cardinality(DOMAIN emitent_uris_yaml)
    /\ yaml_to_string(KeyAt(emitent_uris_yaml, n)) \notin RecordIds
C4_Step ==
    (pc = "uris" /\ UnknownKeyAt(idx)) => emitents_by_id' = emitents_by_id
C4_UnknownKeyDropped == [][C4_Step]_vars

C4_Witness ==
    /\ pc = "uris"
    /\ idx > 0
    /\ UnknownKeyAt(idx - 1)
    /\ RecordIds # {}
    /\ \E k \in DOMAIN emitents_by_id : emitents_by_id[k].uri # ""

\* C7 as stated: when a pattern finds nothing, the call hands its caller a
\* failure value, so it does not end in the panic of an assertion.
RegionAbsent == \E n \in DOMAIN icharts : icharts[n] = <<>>
C7_AbsentIsTypedFailure == RegionAbsent => pc # "panicked"

(***************************************************************************)
(* Properties of yaml_to_string (checked under SpecCoerce).                *)
(***************************************************************************)
\* s is the decimal form of n: an optional minus sign, then digits without
\* a leading zero, whose value is n.
IsDecimalOf(s, n) ==
    LET neg == Len(s) > 0 /\ SubSeq(s, 1, 1) = "-"
        body == IF neg THEN SubSeq(s, 2, Len(s)) ELSE s
    IN  /\ IsDigits(body)
        /\ (Len(body) > 1 => SubSeq(body, 1, 1) # "0")
        /\ (neg => ParseNat(body) # 0)
        /\ n = (IF neg THEN 0 - ParseNat(body) ELSE ParseNat(body))

\* C5: yaml_to_string returns for every value: the text of a text or real
\* value, the decimal form of an integer, "true" or "false" for a boolean,
\* and the empty string for every other category.
C5_Coercion ==
    /\ cpc = "call" => ENABLED Coerce
    /\ cpc = "ret" =>
         /\ coerced \in STRING
         /\ yaml.tag = "String" => coerced = yaml.s
         /\ yaml.tag = "Real" => coerced = yaml.r
         /\ yaml.tag = "Integer" => IsDecimalOf(coerced, yaml.i)
         /\ yaml.tag = "Boolean" =>
              coerced = (IF yaml.b THEN "true" ELSE "false")
         /\ yaml.tag \in {"Array", "Hash", "Alias", "Null", "BadValue"} =>
              coerced = ""
         /\ yaml = YamlString("Sberbank") => coerced = "Sberbank"
         /\ yaml = YamlInteger(42) => coerced = "42"
         /\ yaml = YamlBoolean(TRUE) => coerced = "true"

C5_Witness ==
    /\ cpc = "ret"
    /\ yaml = YamlInteger(0 - 17)
    /\ coerced = "-17"

(***************************************************************************)
(* Properties of download_emitent_info and of the loop of main (checked    *)
(* under SpecDriver).                                                      *)
(***************************************************************************)
\* The text at the end of a path of keys, or the empty string.
RECURSIVE TextAt(_, _)
TextAt(y, path) ==
    IF path = <<>> THEN (IF y.tag = "String" THEN y.s ELSE "")
    ELSE IF y.tag = "Hash" /\ YamlString(Head(path)) \in DOMAIN y.h
         THEN TextAt(y.h[YamlString(Head(path))], Tail(path))
         ELSE ""

IssueFull ==
    YamlHash(Entry(Str("quote"),
        YamlHash(Entry(Str("code"), Str("SBER"))
                 @@ Entry(Str("market"),
                        YamlHash(Entry(Str("title"), Str("MICEX")))))))
IssueEmptyQuote == YamlHash(Entry(Str("quote"), YamlHash(EmptyHash)))

\* C6: on a fetched value the trading code is the text at quote -> code
\* and the market name the text at quote -> market -> title; each is the
\* empty string when its path breaks or ends in something other than text,
\* and the iteration goes on either way.
C6_DetailResolution ==
    /\ (mpc = "fetched" /\ info.ok) =>
         /\ ResolveCode(info.value) \in STRING
         /\ ResolveMarketName(info.value) \in STRING
    /\ mpc = "sleep" =>
         LET e == records[cur + 1]
         IN  /\ e.code = TextAt(info.value, <<"quote", "code">>)
             /\ e.market_name =
                    TextAt(info.value, <<"quote", "market", "title">>)
             /\ info.value = IssueFull =>
                    (e.code = "SBER" /\ e.market_name = "MICEX")
             /\ info.value = IssueEmptyQuote =>
                    (e.code = "" /\ e.market_name = "")

C6_Witness ==
    /\ mpc = "sleep"
    /\ TextAt(info.value, <<"quote", "code">>) = ""
    /\ records[cur + 1].market_name = "MICEX"

PageFetched == mpc = "fetched" /\ page.http = "ok"

\* C8 as stated: on a fetched page the result is the block-not-found error
\* when the assignment is not found or its literal does not parse, and the
\* first parsed value otherwise.
C8_BlockNotFoundOrFirst ==
    PageFetched =>
        IF ~page.matched \/ page.capture.parse = "err"
        THEN info = Err("ParseError::BlockNotFound")
        ELSE /\ Len(page.capture.docs) > 0
             /\ info = Ok(page.capture.docs[1])

\* C8 as amended: on a fetched page the result is the block-not-found
\* error when the assignment is not found or its literal loads as no
\* document, the YAML scan error (ParseError::YamlError) when the literal
\* does not parse, and the first parsed value otherwise.
C8_ScanErrorKept ==
    PageFetched =>
        IF ~page.matched THEN info = Err("ParseError::BlockNotFound")
        ELSE IF page.capture.parse = "err"
             THEN info = Err("ParseError::YamlError")
        ELSE IF Len(page.capture.docs) = 0
             THEN info = Err("ParseError::BlockNotFound")
        ELSE info = Ok(page.capture.docs[1])

C8_Witness ==
    /\ PageFetched
    /\ page.matched
    /\ page.capture.parse = "err"
    /\ info = Err("ParseError::YamlError")

\* C9: market_name and code of a record are empty unless its detail fetch
\* returned Ok; a failed fetch leaves every record as it was and the loop
\* goes on with the next record.
C9_Empty ==
    mpc \in {"loop", "fetched", "sleep", "done"} =>
        \A k \in 1 .. Len(records) :
            fetched[k] # "ok" =>
                (records[k].market_name = "" /\ records[k].code = "")
C9_Step ==
    (mpc = "fetched" /\ ~info.ok) =>
        (records' = records /\ mpc' = "loop" /\ cur' = cur + 1)
C9_FailedFetchLeavesEmpty == []C9_Empty /\ [][C9_Step]_vars

C9_Witness ==
    /\ mpc = "done"
    /\ Len(records) >= 2
    /\ fetched[1] = "err"
    /\ fetched[2] = "ok"
    /\ records[2].code = "SBER"

\* C10 as stated: every detail fetch, failed or not, is followed by one
\* SLEEP_BETWEEN_REQUESTS delay before the next detail fetch starts.
C10_DelayAfterEveryFetch ==
    \A j \in 1 .. Len(events) - 1 :
        /\ events[j].ev = "fetch" => events[j + 1].ev = "sleep"
        /\ events[j].ev = "sleep" => events[j + 1].ev = "fetch"

====
